---- MODULE Spec2Model ----
(***************************************************************************)
(* Model of db::postgres::Result / Row (src/src/postgres-result.cpp): the  *)
(* row-streaming state machine first() / next() / clear() / count(), the   *)
(* iterator pre-increment and the row accessors, over a libpq connection   *)
(* that delivers one message per PQgetResult() call in single-row mode.    *)
(*                                                                         *)
(* assert() is compiled in or out by the build (NDEBUG, line 50 of the     *)
(* source): the build is chosen in Init and never changes.  A failed       *)
(* assertion aborts the process; with NDEBUG the statement is skipped.     *)
(***************************************************************************)
EXTENDS Integers, Sequences, FiniteSets, TLC

VARIABLES
  NDEBUG,     \* TRUE iff the build defines NDEBUG (assertions compiled out)
  pgresult_,  \* Result::pgresult_ : the message in hand, or NULL
  status_,    \* Result::status_
  num_,       \* Result::num_ (row counter)
  ptr_,       \* the caller's iterator, taken from begin(): "begin_" or "end_"
  conn_,      \* the connection: pending messages, busy flag, last error, cancels
  heap,       \* PGresult buffers: the set of live ones
  call,       \* the last call: operation, argument, outcome, result <<n>>, effects
  hist        \* the current request: its script and what the caller did with it

vars == <<NDEBUG, pgresult_, status_, num_, ptr_, conn_, heap, call, hist>>

----------------------------------------------------------------------------
(* Bounds of the model *)

MaxMsgs == 3       \* messages of the request, the null sentinel not counted

----------------------------------------------------------------------------
(* libpq's ExecStatusType, as used by the source *)

PGRES_EMPTY_QUERY  == "PGRES_EMPTY_QUERY"
PGRES_COMMAND_OK   == "PGRES_COMMAND_OK"
PGRES_TUPLES_OK    == "PGRES_TUPLES_OK"
PGRES_COPY_OUT     == "PGRES_COPY_OUT"      \* stands for every status the switches do not name
PGRES_BAD_RESPONSE == "PGRES_BAD_RESPONSE"
PGRES_FATAL_ERROR  == "PGRES_FATAL_ERROR"
PGRES_SINGLE_TUPLE == "PGRES_SINGLE_TUPLE"

Statuses ==
  { PGRES_EMPTY_QUERY, PGRES_COMMAND_OK, PGRES_TUPLES_OK, PGRES_COPY_OUT,
    PGRES_BAD_RESPONSE, PGRES_FATAL_ERROR, PGRES_SINGLE_TUPLE }

ErrorStatuses == { PGRES_BAD_RESPONSE, PGRES_FATAL_ERROR }

INT4OID == 23
InvalidOid == 0

NoCount == << >>            \* a command tag without a row count ("CREATE TABLE")
NoError == <<"", 0>>        \* no error text

----------------------------------------------------------------------------
(* Wire format of an int32 column: four bytes, big-endian, two's complement *)

BE32(v) ==
  << (v \div 16777216) % 256, (v \div 65536) % 256, (v \div 256) % 256, v % 256 >>

\* read<int32_t>(char **buf): be32toh of the four bytes at the cursor
read_int32(buf) ==
  LET hi == IF buf[1] >= 128 THEN buf[1] - 256 ELSE buf[1]
  IN  hi * 16777216 + buf[2] * 65536 + buf[3] * 256 + buf[4]

\* read<bool>(char **buf): the byte at the cursor, taken as a bool
read_bool(buf) == buf[1]

\* read<int16_t>(char **buf): be16toh of the two bytes at the cursor
read_int16(buf) ==
  LET hi == IF buf[1] >= 128 THEN buf[1] - 256 ELSE buf[1]
  IN  hi * 256 + buf[2]

\* A 64-bit integer is kept as four 16-bit limbs, most significant first, the
\* first one signed: <<h, a, b, c>> is h * 2^48 + a * 2^32 + b * 2^16 + c.
\* read<int64_t>(char **buf): be64toh of the eight bytes at the cursor
read_int64(buf) ==
  << read_int16(SubSeq(buf, 1, 2)), buf[3] * 256 + buf[4],
     buf[5] * 256 + buf[6], buf[7] * 256 + buf[8] >>

\* x + y on int64_t, as a two's-complement machine adds; overflow says the sum
\* does not fit (signed overflow)
Add64(x, y) ==
  LET c4 == x[4] + y[4]
      c3 == x[3] + y[3] + (c4 \div 65536)
      c2 == x[2] + y[2] + (c3 \div 65536)
      h  == x[1] + y[1] + (c2 \div 65536)
  IN  [ val |-> << IF h > 32767 THEN h - 65536 ELSE IF h < -32768 THEN h + 65536 ELSE h,
                   c2 % 65536, c3 % 65536, c4 % 65536 >>,
        overflow |-> h > 32767 \/ h < -32768 ]

INT32_MAX == 2147483647

\* x + y on int32_t, for y >= 0
Add32(x, y) ==
  IF x > INT32_MAX - y
  THEN [ val |-> ((x - INT32_MAX) + (y - 1)) - INT32_MAX - 1, overflow |-> TRUE ]
  ELSE [ val |-> x + y, overflow |-> FALSE ]

\* d * 86400 on int32_t: 86400 = 65536 + 20864, the product is taken in 16-bit
\* halves and keeps its low 32 bits
Mul86400(d) ==
  LET dh   == d \div 65536
      dl   == d % 65536
      low  == dl * 20864
      hi16 == (dh * 20864 + dl + (low \div 65536)) % 65536
      lo16 == low % 65536
  IN  [ val |-> (IF hi16 >= 32768 THEN hi16 - 65536 ELSE hi16) * 65536 + lo16,
        overflow |-> d > 24855 \/ d < -24855 ]

\* days and microseconds from the Unix epoch to 2000-01-01
DAYS_UNIX_TO_J2000_EPOCH == 10957

MICROSEC_UNIX_TO_J2000_EPOCH == <<3, 23809, 15159, 57344>>   \* 946684800000000

\* Type oids of the server (libpq/pg_type.h)
BOOLOID == 16
BYTEAOID == 17
CHAROID == 18
NAMEOID == 19
INT8OID == 20
INT2OID == 21
TEXTOID == 25
FLOAT4OID == 700
FLOAT8OID == 701
BPCHAROID == 1042
VARCHAROID == 1043
DATEOID == 1082
TIMEOID == 1083
TIMESTAMPOID == 1114
TIMESTAMPTZOID == 1184
INTERVALOID == 1186
TIMETZOID == 1266
NUMERICOID == 1700          \* a type the accessors do not support
INT4ARRAYOID == 1007        \* int4[]

\* The output types of read<T>(char **buf) and the bytes each takes
ReadTypes ==
  { "bool", "int16_t", "int32_t", "int64_t", "float", "double", "date_t",
    "timestamp_t", "timestamptz_t", "timetz_t", "time_t", "interval_t" }

SizeOf(T) ==
  CASE T = "bool" -> 1
    [] T = "int16_t" -> 2
    [] T \in {"int32_t", "float", "date_t"} -> 4
    [] T \in {"int64_t", "double", "timestamp_t", "timestamptz_t", "time_t"} -> 8
    [] T = "timetz_t" -> 12
    [] T = "interval_t" -> 16

\* read<date_t>: (read<int32_t>(buf) + DAYS_UNIX_TO_J2000_EPOCH) * 86400
read_date(buf) ==
  LET sum == Add32(read_int32(buf), DAYS_UNIX_TO_J2000_EPOCH)
      prd == Mul86400(sum.val)
  IN  [ val |-> <<prd.val>>, overflow |-> sum.overflow \/ prd.overflow ]

\* read<timestamp_t>, read<timestamptz_t>:
\* read<int64_t>(buf) + MICROSEC_UNIX_TO_J2000_EPOCH
read_timestamp(buf) == Add64(read_int64(buf), MICROSEC_UNIX_TO_J2000_EPOCH)

\* read<T>(char **buf) on the SizeOf(T) bytes at the cursor: the decoded value
\* as a sequence of integers (a float is the bit pattern of its int32_t, a
\* double that of its int64_t, a record its fields in order), and whether a
\* signed overflow happened on the way
read_T(T, buf) ==
  CASE T = "bool" -> [ val |-> <<read_bool(buf)>>, overflow |-> FALSE ]
    [] T = "int16_t" -> [ val |-> <<read_int16(buf)>>, overflow |-> FALSE ]
    [] T \in {"int32_t", "float"} -> [ val |-> <<read_int32(buf)>>, overflow |-> FALSE ]
    [] T \in {"int64_t", "double", "time_t"} ->
         [ val |-> read_int64(buf), overflow |-> FALSE ]
    [] T = "date_t" -> read_date(buf)
    [] T \in {"timestamp_t", "timestamptz_t"} -> read_timestamp(buf)
    [] T = "timetz_t" ->
         [ val |-> read_int64(buf) \o <<read_int32(SubSeq(buf, 9, 12))>>,
           overflow |-> FALSE ]
    [] T = "interval_t" ->
         [ val |-> read_int64(buf) \o <<read_int32(SubSeq(buf, 9, 12)),
                                        read_int32(SubSeq(buf, 13, 16))>>,
           overflow |-> FALSE ]

----------------------------------------------------------------------------
(* Messages of the server and PGresult buffers *)

\* Column 0 of a message: the type the server reports for it, whether it is
\* null in the row of the message, and the bytes of its value.
NoCol == [ ftype |-> InvalidOid, isnull |-> TRUE, value |-> << >> ]

\* the int4 column of row r of a statement that returns rows: its value is 10 * r
Int4Col(r) == [ ftype |-> INT4OID, isnull |-> FALSE, value |-> BE32(10 * r) ]

\* The null pointer PQgetResult returns when the request has no more results.
NULL ==
  [ id |-> 0, status |-> "NULL", row |-> 0, affected |-> NoCount, err |-> NoError,
    col |-> NoCol ]

RECURSIVE TuplesBefore(_, _)
\* number of consecutive single-tuple messages that end at position i
TuplesBefore(sts, i) ==
  IF i = 0 \/ sts[i] # PGRES_SINGLE_TUPLE THEN 0 ELSE 1 + TuplesBefore(sts, i - 1)

\* The i-th message of a request whose statuses are sts: a tuple is row `row` of
\* its statement, a command-completion message reports the affected rows k
\* (<<n>>, or NoCount), an end-of-rows message the number of rows delivered
\* before it, an error message carries its error text.  The statements that
\* return rows have one int4 column, whose value in row r is 10 * r.
Message(sts, i, k) ==
  LET st == sts[i]
  IN  [ id       |-> 0,
        status   |-> st,
        row      |-> TuplesBefore(sts, i),
        affected |-> CASE st = PGRES_COMMAND_OK -> k
                       [] st = PGRES_TUPLES_OK  -> <<TuplesBefore(sts, i - 1)>>
                       [] OTHER                 -> NoCount,
        err      |-> IF st \in ErrorStatuses THEN <<"ERROR", i>> ELSE NoError,
        col      |-> CASE st = PGRES_SINGLE_TUPLE -> Int4Col(TuplesBefore(sts, i))
                       [] st = PGRES_TUPLES_OK    -> [NoCol EXCEPT !.ftype = INT4OID]
                       [] OTHER                   -> NoCol ]

\* What the server sends for one request: a run of tuples is always closed by
\* the end-of-rows message or by an error, and an error ends the request (the
\* server gives up the statements that follow it).
WellFormed(sts) ==
  \A i \in 1..Len(sts) :
    /\ sts[i] = PGRES_SINGLE_TUPLE =>
         /\ i < Len(sts)
         /\ sts[i + 1] \in {PGRES_SINGLE_TUPLE, PGRES_TUPLES_OK} \cup ErrorStatuses
    /\ sts[i] \in ErrorStatuses => i = Len(sts)

StatusSeqs ==
  { sts \in UNION { [1..n -> Statuses] : n \in 1..MaxMsgs } : WellFormed(sts) }

AffectedCounts == {NoCount, <<12>>}

Script(sts, k) == [ i \in 1..Len(sts) |-> Message(sts, i, k) ]

----------------------------------------------------------------------------
(* libpq functions the source calls, on a PGresult that may be NULL *)

\* PQresultStatus(res): PGRES_FATAL_ERROR for a null pointer
PQresultStatus(res) == IF res = NULL THEN PGRES_FATAL_ERROR ELSE res.status

\* PQntuples(res): 1 for a single-tuple message, 0 otherwise
PQntuples(res) == IF res.status = PGRES_SINGLE_TUPLE THEN 1 ELSE 0

\* PQnfields(res): the columns of the statement the message belongs to
PQnfields(res) ==
  IF res # NULL /\ res.status \in {PGRES_SINGLE_TUPLE, PGRES_TUPLES_OK} THEN 1 ELSE 0

\* PQftype(res, column): InvalidOid when the column is out of range
PQftype(res, column) ==
  IF column >= 0 /\ column < PQnfields(res) THEN res.col.ftype ELSE InvalidOid

\* PQgetisnull(res, 0, column): 1 when row 0 or the column does not exist
PQgetisnull(res, column) ==
  \/ ~(res # NULL /\ PQntuples(res) = 1 /\ column >= 0 /\ column < PQnfields(res))
  \/ res.col.isnull

\* PQgetvalue(res, 0, column): the bytes of the column; an empty value for a
\* null column
PQgetvalue(res, column) ==
  IF PQgetisnull(res, column) THEN << >> ELSE res.col.value

\* PQgetlength(res, 0, column): the length of the value in bytes
PQgetlength(res, column) == Len(PQgetvalue(res, column))

\* PQfname(res, column): the column's name (name n for column n - 1), or a
\* null pointer (0)
PQfname(res, column) ==
  IF column >= 0 /\ column < PQnfields(res) THEN column + 1 ELSE 0

RECURSIVE Digits(_)
\* the decimal digits of n, most significant first
Digits(n) == IF n < 10 THEN <<n>> ELSE Append(Digits(n \div 10), n % 10)

\* PQcmdTuples(res): the row count of the command tag as a decimal string,
\* the empty string when the tag carries none
PQcmdTuples(res) ==
  IF res = NULL \/ res.affected = NoCount THEN << >> ELSE Digits(res.affected[1])

RECURSIVE strtoull_from(_, _, _)
strtoull_from(str, i, acc) ==
  IF i > Len(str) \/ str[i] \notin 0..9 THEN acc
  ELSE strtoull_from(str, i + 1, acc * 10 + str[i])

\* std::strtoull(str, &end, 10): the leading decimal digits, 0 when there are none
\* (the counts of the model stay far below ULLONG_MAX, where it would saturate)
strtoull(str) == strtoull_from(str, 1, 0)

----------------------------------------------------------------------------
(* The state a call works on, and how a call ends *)

\* The program state at the start of a call, with the call's effects cleared.
Enter ==
  [ pgresult_ |-> pgresult_, status_ |-> status_, num_ |-> num_, ptr_ |-> ptr_,
    pending |-> conn_.pending, busy |-> conn_.busy, lastError |-> conn_.lastError,
    cancels |-> conn_.cancels,
    live |-> heap.live,
    outcome |-> "run", thrown |-> NoError, ret |-> << >>,
    fetched |-> << >>, released |-> 0, peak |-> Cardinality(heap.live),
    cancelled |-> 0,
    nread |-> 0, ub |-> FALSE, g |-> 0, u |-> "wrap" ]

\* a failed assert(): the process aborts at this point
Abort(s) == [s EXCEPT !.outcome = "abort"]

\* throw ExecutionException(conn_.lastError())
ThrowExecutionException(s) == [s EXCEPT !.outcome = "throw", !.thrown = s.lastError]

\* PQclear(pgresult_): releases the buffer; a null pointer is ignored, and the
\* release of a buffer that is not live is undefined behaviour (a double free)
PQclear(s) ==
  IF s.pgresult_ = NULL THEN s
  ELSE [s EXCEPT !.live = @ \ {s.pgresult_.id}, !.released = @ + 1,
                 !.ub = @ \/ s.pgresult_.id \notin s.live]

\* pgresult_ = PQgetResult(conn_): the next pending message in a new buffer, or
\* NULL when the request has no more results (the connection is then idle)
PQgetResult(s) ==
  IF s.pending = << >>
  THEN [s EXCEPT !.pgresult_ = NULL, !.busy = FALSE, !.fetched = Append(@, "NULL")]
  ELSE LET m    == Head(s.pending)
           id   == CHOOSE n \in 1..(Cardinality(s.live) + 1) :
                     n \notin s.live /\ \A k \in 1..(n - 1) : k \in s.live
           live == s.live \cup {id}
       IN  [s EXCEPT !.pgresult_ = [m EXCEPT !.id = id],
                     !.pending   = Tail(@),
                     !.live      = live,
                     !.peak      = IF Cardinality(live) > @ THEN Cardinality(live) ELSE @,
                     !.fetched   = Append(@, m.status),
                     !.lastError = IF m.err # NoError THEN m.err ELSE @]

\* conn_.cancel(): asks the server to give up the request in flight
cancel(s) == [s EXCEPT !.cancels = @ + 1, !.cancelled = @ + 1]

----------------------------------------------------------------------------
(* Result::next, Result::first, Result::clear, iterator::operator++ *)

\* Result::next() with one slip v, as a programmer could have written it:
\*   "no status assert"  the assertion on status_ before the release is missing
\*   "no release"        the message in hand is not released before the fetch
\*   "no count"          a tuple does not advance the row counter
\*   "counts commands"   a command-completion message advances the row counter
\*   "bad response"      the case PGRES_BAD_RESPONSE is missing from the switch
next_variant(s, v) ==
  IF v # "no status assert" /\ s.pgresult_ # NULL /\ ~NDEBUG
     /\ s.status_ # PGRES_SINGLE_TUPLE
  THEN Abort(s)
  ELSE
    LET s1 == IF s.pgresult_ # NULL /\ v # "no release" THEN PQclear(s) ELSE s
        s2 == PQgetResult(s1)
        s3 == [s2 EXCEPT !.status_ = PQresultStatus(s2.pgresult_)]
    IN  IF s2.pgresult_ = NULL /\ ~NDEBUG
        THEN Abort(s2)
        ELSE CASE s3.status_ = PGRES_SINGLE_TUPLE ->
                    IF v = "no count" THEN s3 ELSE [s3 EXCEPT !.num_ = @ + 1]
               [] s3.status_ = PGRES_TUPLES_OK -> s3
               [] s3.status_ = PGRES_FATAL_ERROR -> ThrowExecutionException(s3)
               [] s3.status_ = PGRES_BAD_RESPONSE /\ v # "bad response" ->
                    ThrowExecutionException(s3)
               [] s3.status_ = PGRES_COMMAND_OK ->
                    IF v = "counts commands" THEN [s3 EXCEPT !.num_ = @ + 1] ELSE s3
               [] OTHER -> IF ~NDEBUG THEN Abort(s3) ELSE s3

next_noStatusAssert(s) == next_variant(s, "no status assert")

next_noRelease(s) == next_variant(s, "no release")

next_noCount(s) == next_variant(s, "no count")

next_countsCommands(s) == next_variant(s, "counts commands")

next_ignoresBadResponse(s) == next_variant(s, "bad response")

\* Result::next(): release the tuple in hand, fetch the next message
next(s) ==
  IF s.pgresult_ # NULL /\ ~NDEBUG /\ s.status_ # PGRES_SINGLE_TUPLE
  THEN Abort(s)                               \* assert(status_ == PGRES_SINGLE_TUPLE)
  ELSE
    LET s1 == IF s.pgresult_ # NULL THEN PQclear(s) ELSE s
        s2 == PQgetResult(s1)
        s3 == [s2 EXCEPT !.status_ = PQresultStatus(s2.pgresult_)]
    IN  IF s2.pgresult_ = NULL /\ ~NDEBUG
        THEN Abort(s2)                        \* assert(pgresult_)
        ELSE CASE s3.status_ = PGRES_SINGLE_TUPLE ->
                    IF ~NDEBUG /\ PQntuples(s3.pgresult_) # 1
                    THEN Abort(s3)            \* assert(PQntuples(pgresult_) == 1)
                    ELSE [s3 EXCEPT !.num_ = @ + 1]
               [] s3.status_ = PGRES_TUPLES_OK ->
                    IF ~NDEBUG /\ PQntuples(s3.pgresult_) # 0
                    THEN Abort(s3)            \* assert(PQntuples(pgresult_) == 0)
                    ELSE s3
               [] s3.status_ \in ErrorStatuses -> ThrowExecutionException(s3)
               [] s3.status_ = PGRES_COMMAND_OK -> s3
               [] OTHER ->
                    IF ~NDEBUG THEN Abort(s3) \* default: assert(false)
                    ELSE s3

\* Result::first() without its assertion
first_noAssert(s) == next([s EXCEPT !.num_ = 0])

\* Result::first() that does not reset the row counter
first_noReset(s) ==
  IF ~NDEBUG /\ s.pgresult_ # NULL THEN Abort(s) ELSE next(s)

\* Result::first(): reset the row counter and fetch the first message
first(s) ==
  IF ~NDEBUG /\ s.pgresult_ # NULL
  THEN Abort(s)                               \* assert(pgresult_ == nullptr)
  ELSE next([s EXCEPT !.num_ = 0])

\* the loop of Result::clear() that stops after its first pass
clear_loop_once(s) ==
  LET s1 == PQgetResult(PQclear(s))
      s2 == [s1 EXCEPT !.status_ = PQresultStatus(s1.pgresult_)]
  IN  IF s1.pgresult_ = NULL
      THEN [s1 EXCEPT !.status_ = PGRES_EMPTY_QUERY]
      ELSE IF s2.status_ \in ErrorStatuses
           THEN ThrowExecutionException(s2)
           ELSE s2

RECURSIVE clear_loop(_)
\* the do ... while (status_ != PGRES_EMPTY_QUERY) loop of Result::clear()
clear_loop(s) ==
  LET s1 == PQgetResult(PQclear(s))
      s2 == [s1 EXCEPT !.status_ = PQresultStatus(s1.pgresult_)]
  IN  IF s1.pgresult_ = NULL
      THEN [s1 EXCEPT !.status_ = PGRES_EMPTY_QUERY]
      ELSE IF s2.status_ \in ErrorStatuses
           THEN ThrowExecutionException(s2)
           ELSE IF s2.status_ # PGRES_EMPTY_QUERY
                THEN clear_loop(s2)           \* the other cases only assert(true)
                ELSE s2

\* Result::clear() that cancels whatever next() fetched from a tuple
clear_cancelAlways(s) ==
  CASE s.status_ = PGRES_COMMAND_OK -> clear_loop(s)
    [] s.status_ \in ErrorStatuses \cup {PGRES_TUPLES_OK} ->
         LET s1 == PQgetResult(PQclear(s))
         IN  IF ~NDEBUG /\ s1.pgresult_ # NULL
             THEN Abort(s1)
             ELSE [s1 EXCEPT !.status_ = PGRES_EMPTY_QUERY]
    [] s.status_ = PGRES_SINGLE_TUPLE ->
         LET s1 == next(s)
             s2 == cancel(s1)
         IN  IF s1.outcome # "run" THEN s1
             ELSE IF ~NDEBUG /\ s2.pgresult_ # NULL
                  THEN Abort(s2)
                  ELSE s2
    [] OTHER -> s

\* Result::clear(): clear the previous result of the connection
clear(s) ==
  CASE s.status_ = PGRES_COMMAND_OK -> clear_loop(s)
    [] s.status_ \in ErrorStatuses \cup {PGRES_TUPLES_OK} ->
         LET s1 == PQgetResult(PQclear(s))
         IN  IF ~NDEBUG /\ s1.pgresult_ # NULL
             THEN Abort(s1)                   \* assert(pgresult_ == nullptr)
             ELSE [s1 EXCEPT !.status_ = PGRES_EMPTY_QUERY]
    [] s.status_ = PGRES_SINGLE_TUPLE ->
         LET s1 == next(s)
             s2 == IF s1.status_ = PGRES_SINGLE_TUPLE
                   THEN cancel(s1)
                   ELSE IF s1.status_ = PGRES_TUPLES_OK
                        THEN [PQgetResult(PQclear(s1)) EXCEPT !.status_ = PGRES_EMPTY_QUERY]
                        ELSE s1
         IN  IF s1.outcome # "run" THEN s1
             ELSE IF ~NDEBUG /\ s2.pgresult_ # NULL
                  THEN Abort(s2)              \* assert(pgresult_ == nullptr)
                  ELSE s2
    [] OTHER -> s                             \* PGRES_EMPTY_QUERY, default

\* Result::iterator::operator++(): next(), then move to end_ unless on a tuple
iterator_inc(s) ==
  LET s1 == next(s)
  IN  IF s1.outcome # "run" THEN s1
      ELSE IF s1.status_ = PGRES_SINGLE_TUPLE THEN s1
      ELSE IF ~NDEBUG /\ s1.status_ # PGRES_TUPLES_OK
           THEN Abort(s1)                     \* assert(status_ == PGRES_TUPLES_OK)
           ELSE [s1 EXCEPT !.ptr_ = "end_"]

\* Result::~Result() that leaves the buffer in hand to the heap
Result_destructor_noRelease(s) == s

\* Result::~Result(): release the buffer in hand, if any
Result_destructor(s) == IF s.pgresult_ # NULL THEN PQclear(s) ELSE s

\* Result::count(): the number of rows affected by the command in hand
count(s) ==
  IF ~NDEBUG /\ s.pgresult_ = NULL
  THEN Abort(s)                               \* assert(pgresult_)
  ELSE [s EXCEPT !.ret = <<strtoull(PQcmdTuples(s.pgresult_))>>]

----------------------------------------------------------------------------
(* Row accessors *)

Columns == {0}

\* Row::isNull(column)
isNull(s, column) ==
  IF ~NDEBUG /\ s.pgresult_ = NULL
  THEN Abort(s)                               \* assert(result_.pgresult_ != nullptr)
  ELSE [s EXCEPT !.ret = <<IF PQgetisnull(s.pgresult_, column) THEN 1 ELSE 0>>]

\* Row::columnName(column)
columnName(s, column) ==
  IF ~NDEBUG /\ s.pgresult_ = NULL
  THEN Abort(s)                               \* assert(result_.pgresult_ != nullptr)
  ELSE LET res == PQfname(s.pgresult_, column)
       IN  IF ~NDEBUG /\ res = 0
           THEN Abort(s)                      \* assert(res)
           ELSE [s EXCEPT !.ret = <<res>>]

\* assert_oid(expected, actual): compiled out with NDEBUG
assert_oid(s, expected, actual) ==
  IF ~NDEBUG /\ expected # actual THEN Abort(s) ELSE s

\* The byte at position i of the value buf.  libpq ends every value with a zero
\* byte; a read further on is a read out of bounds and yields whatever byte g
\* the memory holds there.
Byte(buf, i, g) ==
  IF i <= Len(buf) THEN buf[i] ELSE IF i = Len(buf) + 1 THEN 0 ELSE g

\* the n bytes at cursor position p
Bytes(buf, p, n, g) == [ i \in 1..n |-> Byte(buf, p + i - 1, g) ]

\* the decoder read the n bytes at cursor position p of buf
Consume(s, buf, p, n) ==
  [s EXCEPT !.nread = @ + n, !.ub = @ \/ (n > 0 /\ p + n - 1 > Len(buf) + 1)]

\* a signed overflow: the build wraps (s.u = "wrap") or traps (-ftrapv)
Overflow(s) ==
  IF s.u = "trap" THEN [s EXCEPT !.ub = TRUE, !.outcome = "abort"]
  ELSE [s EXCEPT !.ub = TRUE]

\* read<T>(&buf) with the cursor at position p of buf: the value in ret
read_at(s, T, buf, p) ==
  LET r  == read_T(T, Bytes(buf, p, SizeOf(T), s.g))
      s1 == [Consume(s, buf, p, SizeOf(T)) EXCEPT !.ret = r.val]
  IN  IF r.overflow THEN Overflow(s1) ELSE s1

\* read<T>(pgresult, column): decode the value of the column from its start
read_column(s, T, column) == read_at(s, T, PQgetvalue(s.pgresult_, column), 1)

\* read<T>(pgresult, oid, column, defVal) without the test for a null column
read_noNullTest(s, T, oid, column, defVal) ==
  IF ~NDEBUG /\ s.pgresult_ = NULL
  THEN Abort(s)
  ELSE LET s1 == assert_oid(s, PQftype(s.pgresult_, column), oid)
       IN  IF s1.outcome # "run" THEN s1 ELSE read_column(s1, T, column)

\* read<T>(pgresult, oid, column, defVal) without the check of the type
read_noOidCheck(s, T, oid, column, defVal) ==
  IF ~NDEBUG /\ s.pgresult_ = NULL
  THEN Abort(s)
  ELSE IF PQgetisnull(s.pgresult_, column)
       THEN [s EXCEPT !.ret = defVal]
       ELSE read_column(s, T, column)

\* read<T>(pgresult, oid, column, defVal)
read(s, T, oid, column, defVal) ==
  IF ~NDEBUG /\ s.pgresult_ = NULL
  THEN Abort(s)                               \* assert(pgresult != nullptr)
  ELSE LET s1 == assert_oid(s, PQftype(s.pgresult_, column), oid)
       IN  IF s1.outcome # "run" THEN s1
           ELSE IF PQgetisnull(s.pgresult_, column)
                THEN [s1 EXCEPT !.ret = defVal]
                ELSE read_column(s1, T, column)

\* Row::get<int32_t>(column)
get_int32(s, column) == read(s, "int32_t", INT4OID, column, <<0>>)

\* The output types of Row::get<T>, the oid each passes to read() and its
\* default value
GetTypes == ReadTypes \cup {"std::string", "char", "std::vector<uint8_t>"}

OidOf(T) ==
  CASE T = "bool" -> BOOLOID
    [] T = "int16_t" -> INT2OID
    [] T = "int32_t" -> INT4OID
    [] T = "int64_t" -> INT8OID
    [] T = "float" -> FLOAT4OID
    [] T = "double" -> FLOAT8OID
    [] T = "std::string" -> TEXTOID
    [] T = "char" -> CHAROID
    [] T = "std::vector<uint8_t>" -> BYTEAOID
    [] T = "date_t" -> DATEOID
    [] T = "timestamptz_t" -> TIMESTAMPTZOID
    [] T = "timestamp_t" -> TIMESTAMPOID
    [] T = "timetz_t" -> TIMETZOID
    [] T = "time_t" -> TIMEOID
    [] T = "interval_t" -> INTERVALOID

DefaultOf(T) ==
  CASE T \in {"bool", "int16_t", "int32_t", "float", "date_t", "char"} -> <<0>>
    [] T \in {"int64_t", "double", "timestamp_t", "timestamptz_t", "time_t"} ->
         <<0, 0, 0, 0>>
    [] T = "timetz_t" -> <<0, 0, 0, 0, 0>>
    [] T = "interval_t" -> <<0, 0, 0, 0, 0, 0>>
    [] T \in {"std::string", "std::vector<uint8_t>"} -> << >>

\* Row::get<std::string>(column)
get_string(s, column) ==
  IF ~NDEBUG /\ s.pgresult_ = NULL
  THEN Abort(s)                               \* assert(result_.pgresult_ != nullptr)
  ELSE IF PQgetisnull(s.pgresult_, column)
       THEN [s EXCEPT !.ret = << >>]
       ELSE LET buf    == PQgetvalue(s.pgresult_, column)
                length == PQgetlength(s.pgresult_, column)
            IN  [Consume(s, buf, 1, length) EXCEPT !.ret = Bytes(buf, 1, length, s.g)]

\* Row::get<char>(column)
get_char(s, column) ==
  IF ~NDEBUG /\ s.pgresult_ = NULL
  THEN Abort(s)                               \* assert(result_.pgresult_ != nullptr)
  ELSE IF PQgetisnull(s.pgresult_, column)
       THEN [s EXCEPT !.ret = <<0>>]
       ELSE IF ~NDEBUG /\ PQgetlength(s.pgresult_, column) # 1
            THEN Abort(s)                     \* assert(PQgetlength(...) == 1)
            ELSE LET buf == PQgetvalue(s.pgresult_, column)
                 IN  [Consume(s, buf, 1, 1) EXCEPT !.ret = Bytes(buf, 1, 1, s.g)]

\* Row::get<std::vector<uint8_t>>(column)
get_bytea(s, column) ==
  IF ~NDEBUG /\ s.pgresult_ = NULL
  THEN Abort(s)                               \* assert(result_.pgresult_ != nullptr)
  ELSE LET s1     == assert_oid(s, PQftype(s.pgresult_, column), BYTEAOID)
           buf    == PQgetvalue(s.pgresult_, column)
           length == PQgetlength(s.pgresult_, column)
       IN  IF s1.outcome # "run" THEN s1
           ELSE [Consume(s1, buf, 1, length) EXCEPT !.ret = Bytes(buf, 1, length, s.g)]

\* Row::get<T>(column)
get(s, T, column) ==
  CASE T = "std::string" -> get_string(s, column)
    [] T = "char" -> get_char(s, column)
    [] T = "std::vector<uint8_t>" -> get_bytea(s, column)
    [] OTHER -> read(s, T, OidOf(T), column, DefaultOf(T))

\* The output types of Row::asArray<T>
ArrayTypes == {"bool", "int16_t", "int32_t"}

\* the cursor position after the five header words of an array value
ElemsStart == 21

\* No array value of the model has more than MaxLoop elements: a larger size is
\* a word that is no size (the value is no array, or its header has fewer
\* words), and the loop of readArray runs off the memory of the value.
MaxLoop == 8

RunsOff(s) == [s EXCEPT !.outcome = "crash", !.ub = TRUE]

RECURSIVE readArray_loop(_, _, _, _, _, _, _)
\* for (i = 0; i < size; i++) of readArray, from element i with the cursor at p:
\* the elements pushed so far are in ret
readArray_loop(s, T, buf, p, i, size, defVal) ==
  IF ~(i < size) \/ s.outcome # "run" THEN s
  ELSE LET elemSize == read_int32(Bytes(buf, p, 4, s.g))
           s1 == Consume(s, buf, p, 4)
           s2 == IF elemSize = -1
                 THEN [s1 EXCEPT !.ret = defVal]
                 ELSE read_at(s1, T, buf, p + 4)
           q  == IF elemSize = -1 THEN p + 4 ELSE p + 4 + SizeOf(T)
       IN  readArray_loop([s2 EXCEPT !.ret = s.ret \o s2.ret], T, buf, q, i + 1,
                          size, defVal)

\* readArray with one slip v, as a programmer could have written it:
\*   "off by one"    the loop runs while i <= size
\*   "any ndim"      the assertion ndim == 1 is missing
\*   "no null test"  a null column is decoded like any other
readArray_variant(s, T, oid, column, defVal, v) ==
  IF v # "no null test" /\ PQgetisnull(s.pgresult_, column)
  THEN [s EXCEPT !.ret = << >>]
  ELSE LET buf      == PQgetvalue(s.pgresult_, column)
           hdr      == Bytes(buf, 1, 20, s.g)
           ndim     == read_int32(SubSeq(hdr, 1, 4))
           elemType == read_int32(SubSeq(hdr, 9, 12))
           size     == read_int32(SubSeq(hdr, 13, 16))
           s1       == assert_oid(Consume(s, buf, 1, 12), elemType, oid)
           s2       == Consume(s1, buf, 13, 8)
       IN  IF s1.outcome # "run" THEN s1
           ELSE IF v # "any ndim" /\ ~NDEBUG /\ ndim # 1
                THEN Abort(s1)
                ELSE IF size < 0
                     THEN [s2 EXCEPT !.outcome = "throw",
                                     !.thrown = <<"length_error", 0>>]
                     ELSE IF size > MaxLoop
                          THEN RunsOff(s2)
                          ELSE readArray_loop([s2 EXCEPT !.ret = << >>], T, buf,
                                              ElemsStart, 0,
                                              IF v = "off by one" THEN size + 1 ELSE size,
                                              defVal)

readArray_offByOne(s, T, oid, column, defVal) ==
  readArray_variant(s, T, oid, column, defVal, "off by one")

readArray_anyDim(s, T, oid, column, defVal) ==
  readArray_variant(s, T, oid, column, defVal, "any ndim")

readArray_noNullTest(s, T, oid, column, defVal) ==
  readArray_variant(s, T, oid, column, defVal, "no null test")

\* readArray<T>(pgresult, oid, column, defVal)
readArray(s, T, oid, column, defVal) ==
  IF PQgetisnull(s.pgresult_, column) THEN [s EXCEPT !.ret = << >>]
  ELSE LET buf      == PQgetvalue(s.pgresult_, column)
           hdr      == Bytes(buf, 1, 20, s.g)
           ndim     == read_int32(SubSeq(hdr, 1, 4))
           elemType == read_int32(SubSeq(hdr, 9, 12))
           size     == read_int32(SubSeq(hdr, 13, 16))
           s1       == assert_oid(Consume(s, buf, 1, 12), elemType, oid)
           s2       == Consume(s1, buf, 13, 8)
       IN  IF s1.outcome # "run" THEN s1
           ELSE IF ~NDEBUG /\ ndim # 1
                THEN Abort(s1)                \* assert(ndim == 1)
                ELSE IF size < 0              \* array.reserve(size)
                     THEN [s2 EXCEPT !.outcome = "throw",
                                     !.thrown = <<"length_error", 0>>]
                     ELSE IF size > MaxLoop
                          THEN RunsOff(s2)
                          ELSE readArray_loop([s2 EXCEPT !.ret = << >>], T, buf,
                                              ElemsStart, 0, size, defVal)

\* Row::asArray<T>(column)
asArray(s, T, column) == readArray(s, T, OidOf(T), column, <<0>>)

----------------------------------------------------------------------------
(* The state machine: one action per call of the caller *)

\* Where the caller stands in the request: "fresh" after the request was
\* submitted, "first" after first(), "adv" after first() and one or more next() or
\* ++ each called on a tuple, "cleared" after first() and clear(), "other" for any
\* other order of calls.  count() and the accessors do not change it.
Phase(op) ==
  CASE op = "first" -> IF hist.phase = "fresh" THEN "first" ELSE "other"
    [] op \in {"next", "inc"} ->
         IF hist.phase \in {"first", "adv"} /\ pgresult_ # NULL
            /\ status_ = PGRES_SINGLE_TUPLE
         THEN "adv" ELSE "other"
    [] op = "clear" -> IF hist.phase = "first" THEN "cleared" ELSE "other"
    [] OTHER -> hist.phase

\* The calls of first(), next() and ++ made in phases "first" and "adv".
Advances(op) ==
  IF op \in {"first", "next", "inc"}
  THEN IF Phase(op) \in {"first", "adv"} THEN hist.advances + 1 ELSE 0
  ELSE IF Phase(op) \in {"first", "adv"} THEN hist.advances ELSE 0

\* The tuples first(), next() and ++ positioned the stream on, since first().
Visited(op, s) ==
  LET base == IF op = "first" THEN << >> ELSE hist.visited
  IN  IF op \in {"first", "next", "inc"} /\ s.outcome = "run"
         /\ s.status_ = PGRES_SINGLE_TUPLE /\ s.pgresult_ # NULL
      THEN Append(base, [num |-> s.num_, row |-> s.pgresult_.row,
                         val |-> read_int32(Bytes(PQgetvalue(s.pgresult_, 0), 1, 4, 0))])
      ELSE base

\* The call op(arg), of output type T if it has one, ran from the current state
\* and ended in s; h is the caller's record of the behaviour before the call.
CommitH(op, T, arg, s, h) ==
  /\ pgresult_' = s.pgresult_
  /\ status_' = s.status_
  /\ num_' = s.num_
  /\ ptr_' = s.ptr_
  /\ conn_' = [conn_ EXCEPT !.pending = s.pending, !.busy = s.busy,
                            !.lastError = s.lastError, !.cancels = s.cancels]
  /\ heap' = [live |-> s.live]
  /\ call' = [ op |-> op, T |-> T, arg |-> arg,
               outcome |-> IF s.outcome = "run" THEN "return" ELSE s.outcome,
               thrown |-> s.thrown, ret |-> s.ret,
               fetched |-> s.fetched, released |-> s.released, peak |-> s.peak,
               cancelled |-> s.cancelled, nread |-> s.nread, ub |-> s.ub,
               pre |-> [ status_ |-> status_, buf |-> pgresult_ # NULL, num_ |-> num_,
                         npending |-> Len(conn_.pending) ] ]
  /\ hist' = [h EXCEPT !.phase = Phase(op), !.visited = Visited(op, s),
                       !.advances = Advances(op), !.freed = @ + s.released]
  /\ UNCHANGED NDEBUG

CommitT(op, T, arg, s) == CommitH(op, T, arg, s, hist)

Commit(op, arg, s) == CommitT(op, "", arg, s)

\* the process runs until an assertion fails
Alive == call.outcome \notin {"abort", "crash"}

Init ==
  /\ NDEBUG \in BOOLEAN
  /\ pgresult_ = NULL                        \* Result::Result
  /\ status_ = PGRES_EMPTY_QUERY
  /\ num_ = 0
  /\ ptr_ = "begin_"                         \* Result::begin
  /\ conn_ = [ pending |-> << >>, busy |-> FALSE, lastError |-> NoError,
               cancels |-> 0, submitted |-> FALSE ]
  /\ heap = [ live |-> {} ]
  /\ call = [ op |-> "new", T |-> "", arg |-> 0, outcome |-> "return",
              thrown |-> NoError,
              ret |-> << >>, fetched |-> << >>, released |-> 0, peak |-> 0,
              cancelled |-> 0, nread |-> 0, ub |-> FALSE,
              pre |-> [ status_ |-> PGRES_EMPTY_QUERY, buf |-> FALSE, num_ |-> 0,
                        npending |-> 0 ] ]
  /\ hist = [ script |-> << >>, visited |-> << >>, phase |-> "fresh", advances |-> 0,
              loop |-> "none", e |-> "begin_", body |-> << >>, freed |-> 0 ]

\* The request is submitted on the idle connection; the server answers it with
\* the messages of script, then PQgetResult returns NULL.  A behaviour follows
\* the Result through one request.
Execute(script) ==
  /\ Alive
  /\ ~conn_.busy
  /\ ~conn_.submitted
  /\ conn_' = [ pending |-> script, busy |-> TRUE, lastError |-> NoError,
                cancels |-> 0, submitted |-> TRUE ]
  /\ hist' = [ script |-> script, visited |-> << >>, phase |-> "fresh", advances |-> 0,
               loop |-> "none", e |-> "begin_", body |-> << >>, freed |-> 0 ]
  /\ call' = [ op |-> "execute", T |-> "", arg |-> 0, outcome |-> "return",
               thrown |-> NoError,
               ret |-> << >>, fetched |-> << >>, released |-> 0,
               peak |-> Cardinality(heap.live), cancelled |-> 0,
               nread |-> 0, ub |-> FALSE,
               pre |-> [ status_ |-> status_, buf |-> pgresult_ # NULL, num_ |-> num_,
                         npending |-> Len(conn_.pending) ] ]
  /\ ptr_' = "begin_"                        \* the caller's loop starts from begin()
  /\ UNCHANGED <<NDEBUG, pgresult_, status_, num_, heap>>

CallFirst == Alive /\ Commit("first", 0, first(Enter))

CallNext == Alive /\ Commit("next", 0, next(Enter))

CallClear == Alive /\ Commit("clear", 0, clear(Enter))

CallCount == Alive /\ Commit("count", 0, count(Enter))

CallInc == Alive /\ Commit("inc", 0, iterator_inc(Enter))

CallIsNull(column) == Alive /\ Commit("isNull", column, isNull(Enter, column))

CallColumnName(column) == Alive /\ Commit("columnName", column, columnName(Enter, column))

CallGet(column) == Alive /\ Commit("get", column, get_int32(Enter, column))

\* The stream: requests, first(), next(), ++, clear() and count().
Next ==
  \/ \E sts \in StatusSeqs : \E k \in AffectedCounts : Execute(Script(sts, k))
  \/ CallFirst
  \/ CallNext
  \/ CallClear
  \/ CallCount
  \/ CallInc

Spec == Init /\ [][Next]_vars

\* The stream together with the row accessors.
NextRow ==
  \/ Next
  \/ \E column \in Columns : CallIsNull(column)
  \/ \E column \in Columns : CallColumnName(column)
  \/ \E column \in Columns : CallGet(column)

SpecRow == Init /\ [][NextRow]_vars

\* the Result has not been destroyed
Exists == call.op # "destroy"

\* the Result goes out of scope: after it no member function is called
Destroy == Alive /\ Exists /\ Commit("destroy", 0, Result_destructor(Enter))

\* The life of a Result: a request, calls of first(), next() and clear() in any
\* order, then the destruction.
NextLife ==
  \/ Exists /\ \E sts \in StatusSeqs : \E k \in AffectedCounts : Execute(Script(sts, k))
  \/ Exists /\ CallFirst
  \/ Exists /\ CallNext
  \/ Exists /\ CallClear
  \/ Destroy

SpecLife == Init /\ [][NextLife]_vars

----------------------------------------------------------------------------
(* The caller's loop over the rows:                                           *)
(*   first(); for (b = begin(), e = end(); b != e; ++b) { body }              *)
(* ptr_ is the pointer held by b; hist.e the one held by e; hist.body the row *)
(* counters the body saw; hist.loop is "none" before the loop, "running" in   *)
(* it, "left" once ++b threw or aborted.                                      *)

\* Result::begin(): an iterator on begin_
begin == "begin_"

\* Result::end() that never equals begin()
end_alwaysEnd(s) == "end_"

\* Result::end(): an iterator on end_ when a tuple is in hand, else on begin_
end(s) == IF s.status_ = PGRES_SINGLE_TUPLE THEN "end_" ELSE "begin_"

\* iterator::operator!=: two iterators differ when their pointers differ
iterator_ne(a, b) == a # b

\* b = begin(), e = end(), after a first() that returned
LoopBegin ==
  /\ Alive
  /\ call.op = "first"
  /\ call.outcome = "return"
  /\ hist.loop = "none"
  /\ ptr_' = begin
  /\ hist' = [hist EXCEPT !.loop = "running", !.e = end(Enter)]
  /\ UNCHANGED <<NDEBUG, pgresult_, status_, num_, conn_, heap, call>>

\* one turn of the loop: b != e holds, the body reads the row counter, then ++b
LoopStep ==
  /\ Alive
  /\ hist.loop = "running"
  /\ iterator_ne(ptr_, hist.e)
  /\ LET s == iterator_inc(Enter)
     IN  CommitH("inc", "", 0, s,
                 [hist EXCEPT !.body = Append(@, num_),
                              !.loop = IF s.outcome = "run" THEN "running" ELSE "left"])

NextIter ==
  \/ \E sts \in StatusSeqs : \E k \in AffectedCounts : Execute(Script(sts, k))
  \/ hist.phase = "fresh" /\ CallFirst      \* the caller calls first() once
  \/ LoopBegin
  \/ LoopStep

SpecIter == Init /\ [][NextIter]_vars

(* The same loop with end() called in every test:                             *)
(*   first(); for (b = begin(); b != end(); ++b) { body }                     *)
(* hist.loop is "each" in it, "each left" once ++b threw or aborted; hist.e   *)
(* is the end() of the first test.                                            *)

\* b = begin(), after a first() that returned
LoopBeginEach ==
  /\ Alive
  /\ call.op = "first"
  /\ call.outcome = "return"
  /\ hist.loop = "none"
  /\ ptr_' = begin
  /\ hist' = [hist EXCEPT !.loop = "each", !.e = end(Enter)]
  /\ UNCHANGED <<NDEBUG, pgresult_, status_, num_, conn_, heap, call>>

\* one turn: b != end() holds, the body reads the row counter, then ++b
LoopStepEach ==
  /\ Alive
  /\ hist.loop = "each"
  /\ iterator_ne(ptr_, end(Enter))
  /\ LET s == iterator_inc(Enter)
     IN  CommitH("inc", "", 0, s,
                 [hist EXCEPT !.body = Append(@, num_),
                              !.loop = IF s.outcome = "run" THEN "each" ELSE "each left"])

NextIterEach ==
  \/ \E sts \in StatusSeqs : \E k \in AffectedCounts : Execute(Script(sts, k))
  \/ hist.phase = "fresh" /\ CallFirst      \* the caller calls first() once
  \/ LoopBeginEach
  \/ LoopStepEach

SpecIterEach == Init /\ [][NextIterEach]_vars

----------------------------------------------------------------------------
(* The accessors on one column: a request that returns one row with one       *)
(* column, first(), then get<T> and asArray<T> on the tuple in hand           *)

MaxElems == 2       \* elements of an array value

\* wire values of a date column (days from 2000-01-01), among them the last day
\* whose decoded value fits 32 bits and the day after it
DateWire == {0, 1, -1, -10957, 13898, 13899, -35812, -35813, INT32_MAX}

BE16(v) == << (v \div 256) % 256, v % 256 >>

Zero8 == <<0, 0, 0, 0, 0, 0, 0, 0>>

\* The values the server sends for a column of type oid (binary format)
WireValues(oid) ==
  CASE oid = BOOLOID -> { <<0>>, <<1>> }
    [] oid = INT2OID -> { BE16(258), BE16(-2) }
    [] oid = INT4OID -> { BE32(10), BE32(-3) }
    [] oid = INT8OID -> { Zero8, <<255, 255, 255, 255, 255, 255, 255, 214>> }
    [] oid = FLOAT4OID -> { <<63, 128, 0, 0>> }
    [] oid = FLOAT8OID -> { <<63, 240, 0, 0, 0, 0, 0, 0>> }
    [] oid = TEXTOID -> { << >>, <<97, 98>> }
    [] oid = VARCHAROID -> { <<120>> }
    [] oid = CHAROID -> { <<99>> }
    [] oid = BYTEAOID -> { <<0, 255>> }
    [] oid = DATEOID -> { BE32(w) : w \in DateWire }
    [] oid \in {TIMESTAMPOID, TIMESTAMPTZOID} ->
         { Zero8, <<0, 2, 78, 205, 69, 124, 16, 0>>,
           <<127, 255, 255, 255, 255, 255, 255, 255>> }
    [] oid = TIMEOID -> { <<0, 0, 0, 10, 14, 254, 80, 0>> }
    [] oid = TIMETZOID -> { <<0, 0, 0, 10, 14, 254, 80, 0>> \o BE32(-3600) }
    [] oid = INTERVALOID -> { <<0, 0, 0, 0, 0, 15, 66, 64>> \o BE32(2) \o BE32(14) }
    [] oid = NUMERICOID -> { <<0, 1, 0, 0, 0, 0, 0, 0, 0, 7>> }

ScalarOids ==
  { BOOLOID, INT2OID, INT4OID, INT8OID, FLOAT4OID, FLOAT8OID, TEXTOID, VARCHAROID,
    CHAROID, BYTEAOID, DATEOID, TIMESTAMPOID, TIMESTAMPTZOID, TIMEOID, TIMETZOID,
    INTERVALOID, NUMERICOID }

ScalarColumns ==
  UNION { { [ftype |-> oid, isnull |-> FALSE, value |-> v] : v \in WireValues(oid) }
          \cup { [ftype |-> oid, isnull |-> TRUE, value |-> << >>] } : oid \in ScalarOids }

\* An element of an array on the wire: NullElem, or its value
NullElem == << >>

ElemValues(T) ==
  CASE T = "bool" -> {0, 1}
    [] T = "int16_t" -> {258, -2}
    [] T = "int32_t" -> {10, -3}

Elems(T) ==
  UNION { [1..n -> {NullElem} \cup { <<v>> : v \in ElemValues(T) }] : n \in 0..MaxElems }

\* the bytes of the value v of type T
Encode(T, v) ==
  CASE T = "bool" -> <<v>>
    [] T = "int16_t" -> BE16(v)
    [] T = "int32_t" -> BE32(v)

RECURSIVE EncodeElems(_, _)
\* each element: its length (-1 for a null element), then its bytes
EncodeElems(T, elems) ==
  IF elems = << >> THEN << >>
  ELSE LET e == Head(elems)
       IN  (IF e = NullElem THEN BE32(-1) ELSE BE32(SizeOf(T)) \o Encode(T, e[1]))
           \o EncodeElems(T, Tail(elems))

\* The array value the server sends: ndim, flags, element type; for each
\* dimension its size and lower bound; the elements.  An empty array has
\* ndim = 0 and nothing after the three words; the two-dimensional value is an
\* array of Len(elems) rows of one element.
ArrayValue(ndim, T, elems) ==
  BE32(ndim) \o BE32(0) \o BE32(OidOf(T))
  \o (CASE ndim = 0 -> << >>
        [] ndim = 1 -> BE32(Len(elems)) \o BE32(1) \o EncodeElems(T, elems)
        [] ndim = 2 -> BE32(Len(elems)) \o BE32(1) \o BE32(1) \o BE32(1)
                       \o EncodeElems(T, elems))

\* the oid of the array type whose elements are T: bool[], int2[], int4[]
ArrayOidOf(T) ==
  CASE T = "bool" -> 1000
    [] T = "int16_t" -> 1005
    [] T = "int32_t" -> INT4ARRAYOID

ArrayColumn(ndim, T, elems) ==
  [ ftype |-> ArrayOidOf(T), isnull |-> FALSE, value |-> ArrayValue(ndim, T, elems) ]

ArrayColumns ==
  UNION { { ArrayColumn(1, T, elems) : elems \in Elems(T) }
          \cup { ArrayColumn(0, T, << >>) }
          \cup { ArrayColumn(2, T, elems) : elems \in { e \in Elems(T) : Len(e) = 2 } }
          \cup { [ftype |-> ArrayOidOf(T), isnull |-> TRUE, value |-> << >>] }
          : T \in ArrayTypes }

\* The request returns one row whose column 0 is col, then the end of rows.
ColumnScript(col) ==
  LET sts == <<PGRES_SINGLE_TUPLE, PGRES_TUPLES_OK>>
  IN  << [Message(sts, 1, NoCount) EXCEPT !.col = col],
         [Message(sts, 2, NoCount) EXCEPT !.col = [NoCol EXCEPT !.ftype = col.ftype]] >>

\* bytes a read out of bounds can find
Garbage == {0, 255}

\* what a build does on a signed overflow
OverflowModes == {"wrap", "trap"}

CallGetT(T, column, g, u) ==
  Alive /\ CommitT("get", T, column, get([Enter EXCEPT !.g = g, !.u = u], T, column))

CallAsArray(T, column, g, u) ==
  Alive /\ CommitT("asArray", T, column, asArray([Enter EXCEPT !.g = g, !.u = u], T, column))

NextDecode ==
  \/ \E col \in ScalarColumns \cup ArrayColumns : Execute(ColumnScript(col))
  \/ CallFirst
  \/ \E T \in GetTypes, column \in Columns, g \in Garbage, u \in OverflowModes :
       CallGetT(T, column, g, u)
  \/ \E T \in ArrayTypes, column \in Columns, g \in Garbage, u \in OverflowModes :
       CallAsArray(T, column, g, u)

SpecDecode == Init /\ [][NextDecode]_vars

----------------------------------------------------------------------------
(* Stream states *)

Idle == pgresult_ = NULL /\ status_ = PGRES_EMPTY_QUERY

PositionedOnTuple == pgresult_ # NULL /\ status_ = PGRES_SINGLE_TUPLE

Exhausted == pgresult_ # NULL /\ status_ = PGRES_TUPLES_OK

CommandOnly == pgresult_ # NULL /\ status_ = PGRES_COMMAND_OK

\* every message of the request was consumed, the null sentinel included
Requestable == conn_.pending = << >> /\ ~conn_.busy

\* the stream state in which the last call started
WasPositioned == call.pre.buf /\ call.pre.status_ = PGRES_SINGLE_TUPLE

WasExhausted == call.pre.buf /\ call.pre.status_ = PGRES_TUPLES_OK

WasCommandOnly == call.pre.buf /\ call.pre.status_ = PGRES_COMMAND_OK

\* the messages that were pending when the last call started
PrePending ==
  SubSeq(hist.script, Len(hist.script) - call.pre.npending + 1, Len(hist.script))

\* a request that returns rows: N tuples, then the end-of-rows message
IsSelect(script) ==
  /\ Len(script) >= 1
  /\ script[Len(script)].status = PGRES_TUPLES_OK
  /\ \A i \in 1..(Len(script) - 1) : script[i].status = PGRES_SINGLE_TUPLE

----------------------------------------------------------------------------
(* C1  Drain after early abandon.  clear() called on a tuple, with k >= 1     *)
(* further tuples and the end-of-rows message pending, returns with the       *)
(* stream Idle and every pending message consumed, the null sentinel          *)
(* included; once it has cancelled it fetches until the sentinel.             *)

C1_DrainAfterAbandon ==
  ( /\ call.op = "clear"
    /\ WasPositioned
    /\ Len(PrePending) >= 2
    /\ IsSelect(PrePending) )
  => /\ call.outcome = "return"
     /\ Idle
     /\ Requestable
     /\ (call.cancelled > 0 => call.fetched[Len(call.fetched)] = "NULL")

----------------------------------------------------------------------------
(* C2  Advancement after exhaustion.  As claimed: once the stream is          *)
(* Exhausted or CommandOnly, next() and ++ are no-ops that fetch nothing,     *)
(* release nothing, leave status and row counter unchanged and raise no       *)
(* error.                                                                     *)

C2_AdvanceAfterEndIsNoOp ==
  ( /\ call.op \in {"next", "inc"}
    /\ (WasExhausted \/ WasCommandOnly) )
  => /\ call.outcome = "return"
     /\ call.fetched = << >>
     /\ call.released = 0
     /\ status_ = call.pre.status_
     /\ num_ = call.pre.num_

(* C2 as the code has it: next() and ++ called when Exhausted or CommandOnly  *)
(* violate the precondition of next().  With assertions enabled the call      *)
(* fails the assertion status_ == PGRES_SINGLE_TUPLE before anything is       *)
(* fetched or released, status and row counter unchanged; with NDEBUG it      *)
(* releases the message in hand and fetches one more message.                 *)

C2_AdvanceAfterEndIsRejected ==
  ( /\ call.op \in {"next", "inc"}
    /\ (WasExhausted \/ WasCommandOnly) )
  => IF ~NDEBUG
     THEN /\ call.outcome = "abort"
          /\ call.fetched = << >>
          /\ call.released = 0
          /\ status_ = call.pre.status_
          /\ num_ = call.pre.num_
          /\ pgresult_ # NULL
     ELSE /\ call.released = 1
          /\ Len(call.fetched) = 1

C2_Witness ==
  /\ call.op \in {"next", "inc"}
  /\ WasExhausted
  /\ call.outcome = "abort"
  /\ Exhausted

----------------------------------------------------------------------------
(* C3  Error during a multi-statement drain.  clear() called in CommandOnly   *)
(* state with a fatal-error or bad-response message among the pending ones    *)
(* reports the first such error as ExecutionFailed and still consumes every   *)
(* pending message up to the null sentinel: when it throws, the stream is     *)
(* Idle and the connection request-able.                                      *)

FirstErrorText(msgs) ==
  LET i == CHOOSE j \in 1..Len(msgs) :
             /\ msgs[j].status \in ErrorStatuses
             /\ \A k \in 1..(j - 1) : msgs[k].status \notin ErrorStatuses
  IN  msgs[i].err

C3_ErrorDuringDrain ==
  ( /\ call.op = "clear"
    /\ WasCommandOnly
    /\ \E i \in 1..Len(PrePending) : PrePending[i].status \in ErrorStatuses )
  => /\ call.outcome = "throw"
     /\ call.thrown = FirstErrorText(PrePending)
     /\ Idle
     /\ Requestable

----------------------------------------------------------------------------
(* C4  Single live buffer.  In every reachable state at most one fetched      *)
(* message buffer is live, it is the one pgresult_ points to, and during      *)
(* every call the buffer in hand is released before the next one is           *)
(* acquired: no call ever has two buffers live at once.                       *)

C4_SingleLiveBuffer ==
  /\ Cardinality(heap.live) <= 1
  /\ call.peak <= 1
  /\ heap.live = IF pgresult_ = NULL THEN {} ELSE {pgresult_.id}

C4_Witness ==
  /\ call.op \in {"next", "inc", "clear"}
  /\ call.pre.buf
  /\ call.released >= 1
  /\ Len(call.fetched) >= 1
  /\ pgresult_ # NULL
  /\ call.peak = 1

----------------------------------------------------------------------------
(* C5  Row accessors fail loudly unless positioned.  isNull, columnName and   *)
(* get<T> return a value only while the stream is positioned on a tuple; in   *)
(* every other stream state the call is rejected.  Stated for the build with  *)
(* assertions enabled, the one that can reject at all.                        *)

C5_AccessorsRequireTuple ==
  ( /\ ~NDEBUG
    /\ call.op \in {"isNull", "columnName", "get"}
    /\ call.outcome = "return" )
  => PositionedOnTuple

----------------------------------------------------------------------------
(* C6  Streaming a row-returning query.  When the server delivers N tuples    *)
(* and then the end-of-rows message carrying row count N, the j-th call of    *)
(* first() / next() / ++ returns with the stream positioned on the j-th       *)
(* delivered tuple for j = 1..N (row counter j, column value 10 * j), and     *)
(* the (N+1)-th leaves it Exhausted after exactly N tuples, where count()     *)
(* returns N.                                                                 *)

Rows(m) == [ i \in 1..m |-> [num |-> i, row |-> i, val |-> 10 * i] ]

C6_StreamingSelect ==
  ( /\ IsSelect(hist.script)
    /\ hist.phase \in {"first", "adv"} )
  => LET N == Len(hist.script) - 1
         j == hist.advances
     IN  /\ call.outcome = "return"
         /\ 1 <= j /\ j <= N + 1
         /\ IF j <= N
            THEN /\ PositionedOnTuple
                 /\ pgresult_.row = j
                 /\ num_ = j
                 /\ get_int32(Enter, 0).ret = <<10 * j>>
                 /\ hist.visited = Rows(j)
            ELSE /\ Exhausted
                 /\ num_ = N
                 /\ hist.visited = Rows(N)
                 /\ count(Enter).ret = <<N>>
                 /\ (call.op = "count" => call.ret = <<N>>)

C6_Witness ==
  /\ IsSelect(hist.script)
  /\ Len(hist.script) = 3
  /\ hist.phase = "adv"
  /\ hist.advances = 3
  /\ Exhausted
  /\ call.op = "count"
  /\ call.ret = <<2>>

----------------------------------------------------------------------------
(* C7  Non-row command.  When the first message of the request is a           *)
(* command-completion message reporting k affected rows, first() leaves the   *)
(* stream CommandOnly with count() = k, and from first() up to and including  *)
(* the following clear() the stream is never positioned on a tuple and the    *)
(* row counter stays 0.                                                       *)

C7_NonRowCommand ==
  ( /\ hist.script # << >>
    /\ hist.script[1].status = PGRES_COMMAND_OK
    /\ hist.phase \in {"first", "cleared"} )
  => /\ ~PositionedOnTuple
     /\ status_ # PGRES_SINGLE_TUPLE
     /\ num_ = 0
     /\ hist.visited = << >>
     /\ hist.phase = "first" =>
          /\ CommandOnly
          /\ call.outcome = "return"
          /\ hist.script[1].affected # NoCount =>
               /\ count(Enter).ret = hist.script[1].affected
               /\ (call.op = "count" => call.ret = hist.script[1].affected)

C7_Witness ==
  /\ hist.script # << >>
  /\ hist.script[1].status = PGRES_COMMAND_OK
  /\ hist.script[1].affected = <<12>>
  /\ hist.phase = "cleared"
  /\ call.op = "clear"
  /\ Idle

----------------------------------------------------------------------------
(* C8  Unambiguous advancement outcome.                                       *)

\* the row counter the last call of first() or next() started from
CounterBase == IF call.op = "first" THEN 0 ELSE call.pre.num_

\* the call positioned the stream on a new tuple
OutcomeTuple ==
  /\ call.outcome = "return"
  /\ PositionedOnTuple
  /\ call.fetched = <<PGRES_SINGLE_TUPLE>>
  /\ num_ = CounterBase + 1

\* the call reported the end of the stream
OutcomeEnd ==
  /\ call.outcome = "return"
  /\ Exhausted \/ CommandOnly
  /\ num_ = CounterBase

\* the call raised ExecutionFailed with the connection's last error text
OutcomeFailed ==
  /\ call.outcome = "throw"
  /\ call.thrown = conn_.lastError
  /\ pgresult_ # NULL => call.thrown = pgresult_.err
  /\ ~PositionedOnTuple
  /\ num_ = CounterBase

ExactlyOneOutcome ==
  /\ OutcomeTuple \/ OutcomeEnd \/ OutcomeFailed
  /\ ~(OutcomeTuple /\ OutcomeEnd)
  /\ ~(OutcomeTuple /\ OutcomeFailed)
  /\ ~(OutcomeEnd /\ OutcomeFailed)

(* C8 as claimed: every call of first() or next() that completes has exactly  *)
(* one of three outcomes: positioned on a new tuple, end of stream (Exhausted *)
(* or CommandOnly), or ExecutionFailed with the connection's last error text, *)
(* the stream then not positioned and the row counter not incremented.        *)

C8_ThreeOutcomes ==
  ( /\ call.op \in {"first", "next"}
    /\ call.outcome # "abort" )
  => ExactlyOneOutcome

(* C8 as the code has it: that holds of every call that fetched a message of  *)
(* one of the five statuses the switch names (or, with NDEBUG, the null       *)
(* sentinel).  A message of any other status is a fourth outcome: the call    *)
(* fails assert(false), or with NDEBUG returns with that message in hand,     *)
(* not positioned, not at the end of the stream and without an error.         *)

UnnamedStatuses == {PGRES_EMPTY_QUERY, PGRES_COPY_OUT}

C8_OutcomesByStatus ==
  ( /\ call.op \in {"first", "next"}
    /\ call.fetched # << >> )
  => /\ Len(call.fetched) = 1
     /\ IF call.fetched[1] \in UnnamedStatuses
        THEN IF ~NDEBUG
             THEN call.outcome = "abort"
             ELSE /\ call.outcome = "return"
                  /\ pgresult_ # NULL
                  /\ status_ = call.fetched[1]
                  /\ num_ = CounterBase
        ELSE call.outcome # "abort" => ExactlyOneOutcome

C8_Witness ==
  /\ call.op = "next"
  /\ WasPositioned
  /\ call.fetched = <<PGRES_FATAL_ERROR>>
  /\ OutcomeFailed

----------------------------------------------------------------------------
(* C9  first() requires Idle.  As claimed: first() called while a result      *)
(* buffer is attached is rejected and fetches no message, releases nothing    *)
(* and does not reset the row counter.                                        *)

C9_FirstRequiresIdle ==
  ( /\ call.op = "first"
    /\ call.pre.buf )
  => /\ call.outcome = "abort"
     /\ call.fetched = << >>
     /\ call.released = 0
     /\ num_ = call.pre.num_

(* C9 as the code has it: the rejection is assert(pgresult_ == nullptr).      *)
(* With assertions enabled the claim holds; with NDEBUG first() releases      *)
(* the buffer in hand, resets the row counter and fetches the next message.   *)

C9_FirstRequiresIdleIfAsserted ==
  ( /\ call.op = "first"
    /\ call.pre.buf )
  => IF ~NDEBUG
     THEN /\ call.outcome = "abort"
          /\ call.fetched = << >>
          /\ call.released = 0
          /\ num_ = call.pre.num_
          /\ status_ = call.pre.status_
          /\ pgresult_ # NULL
     ELSE /\ call.released = 1
          /\ Len(call.fetched) = 1
          /\ num_ = IF PositionedOnTuple THEN 1 ELSE 0

C9_Witness ==
  /\ call.op = "first"
  /\ WasPositioned
  /\ call.outcome = "abort"
  /\ PositionedOnTuple
  /\ num_ >= 1

----------------------------------------------------------------------------
(* C10  count() before completion fails.  count() returns a number only when  *)
(* the message in hand is a command-completion or end-of-rows message; in     *)
(* Idle, on a tuple or after an error it fails.  Stated for the build with    *)
(* assertions enabled, the one that can fail at all.                          *)

C10_CountRequiresCompletion ==
  ( /\ ~NDEBUG
    /\ call.op = "count"
    /\ call.outcome = "return" )
  => CommandOnly \/ Exhausted

----------------------------------------------------------------------------
(* C11  Unexpected message during drain.  While clear() drains from the       *)
(* CommandOnly state, the first pending tuple or end-of-rows message ends     *)
(* the call with an error at that message: it is not discarded with the       *)
(* drain going on, and the call does not return normally.  (The two statuses  *)
(* the claim names; it says the same of every other unexpected status.)       *)

UnexpectedInDrain == {PGRES_SINGLE_TUPLE, PGRES_TUPLES_OK}

C11_UnexpectedDuringDrain ==
  ( /\ call.op = "clear"
    /\ WasCommandOnly )
  => \A i \in 1..Len(PrePending) :
       ( /\ PrePending[i].status \in UnexpectedInDrain
         /\ \A j \in 1..(i - 1) : PrePending[j].status = PGRES_COMMAND_OK )
       => /\ call.outcome # "return"
          /\ Len(call.fetched) = i

----------------------------------------------------------------------------
(* C12  Type-tag validation on every accessor.  On a positioned tuple,        *)
(* get<T>(column) of a column whose type tag is none of the tags T stands     *)
(* for is rejected and returns no value, for every output type T.  Stated     *)
(* for the build with assertions enabled, the one that validates at all.      *)

\* the type tags an output type stands for (the table of assert_oid)
TagsOf(T) ==
  IF T = "std::string"
  THEN {CHAROID, NAMEOID, TEXTOID, BPCHAROID, VARCHAROID}
  ELSE {OidOf(T)}

C12_TypeTagValidation ==
  ( /\ ~NDEBUG
    /\ call.op = "get"
    /\ PositionedOnTuple
    /\ PQftype(pgresult_, call.arg) \notin TagsOf(call.T) )
  => call.outcome # "return"

----------------------------------------------------------------------------
(* C13  Null yields the default without decoding.  On a positioned tuple,     *)
(* for every output type T and a null column whose type tag matches T,        *)
(* get<T> returns T's default (false, 0, the empty string, '\0', the empty    *)
(* byte vector, the temporal record of zeros) and reads no byte of the        *)
(* column's value; asArray<T> of a null column returns the empty sequence     *)
(* and reads no byte either.                                                  *)

\* the number of integers that make up a value of the fixed-size type T
FieldsOf(T) ==
  CASE T \in {"bool", "int16_t", "int32_t", "float", "date_t", "char"} -> 1
    [] T \in {"int64_t", "double", "timestamp_t", "timestamptz_t", "time_t"} -> 4
    [] T = "timetz_t" -> 5
    [] T = "interval_t" -> 6

ZeroValue(T) ==
  IF T \in {"std::string", "std::vector<uint8_t>"} THEN << >>
  ELSE [ i \in 1..FieldsOf(T) |-> 0 ]

C13_NullYieldsDefault ==
  ( /\ call.op \in {"get", "asArray"}
    /\ PositionedOnTuple
    /\ PQgetisnull(pgresult_, call.arg)
    /\ call.op = "get" => PQftype(pgresult_, call.arg) \in TagsOf(call.T) )
  => /\ call.outcome = "return"
     /\ call.ret = IF call.op = "get" THEN ZeroValue(call.T) ELSE << >>
     /\ call.nread = 0
     /\ ~call.ub

C13_Witness ==
  /\ call.op = "get"
  /\ call.T = "interval_t"
  /\ PositionedOnTuple
  /\ pgresult_.col.ftype = INTERVALOID
  /\ pgresult_.col.isnull
  /\ call.outcome = "return"
  /\ call.ret = <<0, 0, 0, 0, 0, 0>>
  /\ call.nread = 0

----------------------------------------------------------------------------
(* C14  One-dimensional array decode.  For a non-null array column of         *)
(* elements of type T whose header declares ndim = 1 and size N, asArray<T>   *)
(* returns exactly N elements in wire order, the default where the length     *)
(* prefix is -1 and the decoded value otherwise; the cursor consumes the 5    *)
(* header words, the N length prefixes and the payloads of the non-null       *)
(* elements, which is the whole value, and no byte after it is read.          *)

\* the number of non-null elements
RECURSIVE NonNull(_)
NonNull(elems) ==
  IF elems = << >> THEN 0
  ELSE (IF Head(elems) = NullElem THEN 0 ELSE 1) + NonNull(Tail(elems))

C14_ArrayDecode ==
  \A T \in ArrayTypes : \A elems \in Elems(T) :
    ( /\ call.op = "asArray"
      /\ call.T = T
      /\ PositionedOnTuple
      /\ pgresult_.col = ArrayColumn(1, T, elems) )
    => /\ call.outcome = "return"
       /\ Len(call.ret) = Len(elems)
       /\ \A i \in 1..Len(elems) :
            call.ret[i] = IF elems[i] = NullElem THEN 0 ELSE elems[i][1]
       /\ call.nread = 4 * 5 + 4 * Len(elems) + SizeOf(T) * NonNull(elems)
       /\ call.nread = Len(pgresult_.col.value)
       /\ ~call.ub

C14_Witness ==
  /\ call.op = "asArray"
  /\ call.T = "int16_t"
  /\ PositionedOnTuple
  /\ pgresult_.col = ArrayColumn(1, "int16_t", << <<258>>, NullElem >>)
  /\ call.outcome = "return"
  /\ call.ret = <<258, 0>>
  /\ call.nread = 30

----------------------------------------------------------------------------
(* C15  Unsupported dimensionality.  As claimed: asArray<T> of a non-null     *)
(* array column whose header declares ndim # 1 (0 for an empty array, 2 or    *)
(* more) is rejected and returns no sequence, never a truncated or partly     *)
(* decoded one.                                                               *)

\* the array columns of the model whose header declares ndim # 1
OtherDimColumns ==
  UNION { { ArrayColumn(0, T, << >>) }
          \cup { ArrayColumn(2, T, elems) : elems \in { e \in Elems(T) : Len(e) = 2 } }
          : T \in ArrayTypes }

C15_UnsupportedDimensionality ==
  ( /\ call.op = "asArray"
    /\ PositionedOnTuple
    /\ pgresult_.col \in OtherDimColumns )
  => /\ call.outcome \notin {"return", "crash"}
     /\ call.ret = << >>

(* C15 as the code has it: the rejection is assert(ndim == 1) (and, for an    *)
(* element type other than T, assert_oid before it).  With assertions         *)
(* enabled the call fails after the first three header words and returns no   *)
(* sequence; with NDEBUG nothing is checked and the call reads on, taking     *)
(* the next two words for size and lower bound.                               *)

C15_RejectedIfAsserted ==
  ( /\ call.op = "asArray"
    /\ PositionedOnTuple
    /\ pgresult_.col \in OtherDimColumns )
  => IF ~NDEBUG
     THEN /\ call.outcome = "abort"
          /\ call.ret = << >>
          /\ call.nread = 12
     ELSE /\ call.outcome # "abort"
          /\ call.nread >= 20
          /\ call.outcome = "return" => Len(call.ret) = read_int32(Bytes(pgresult_.col.value, 13, 4, 0))

C15_Witness ==
  /\ call.op = "asArray"
  /\ call.T = "int32_t"
  /\ PositionedOnTuple
  /\ pgresult_.col = ArrayColumn(0, "int32_t", << >>)
  /\ ~NDEBUG
  /\ call.outcome = "abort"
  /\ call.nread = 12

----------------------------------------------------------------------------
(* C17  Date epoch rebasing.  For every wire value w of a non-null date       *)
(* column, get<date_t> returns (w + DAYS_UNIX_TO_J2000_EPOCH) * 86400,        *)
(* computed without overflow of the integer type of the arithmetic; w = 0     *)
(* decodes to 946684800; and the wire value 0 of a timestamp or timestamptz   *)
(* column decodes to MICROSEC_UNIX_TO_J2000_EPOCH.                            *)

C17_DateEpochRebasing ==
  ( /\ call.op = "get"
    /\ PositionedOnTuple
    /\ ~PQgetisnull(pgresult_, call.arg)
    /\ PQftype(pgresult_, call.arg) = OidOf(call.T) )
  => /\ call.T = "date_t" =>
          /\ call.outcome = "return"
          /\ ~call.ub
          /\ call.ret[1] % 86400 = 0
          /\ (call.ret[1] \div 86400) - DAYS_UNIX_TO_J2000_EPOCH
               = read_int32(pgresult_.col.value)
          /\ pgresult_.col.value = BE32(0) => call.ret = <<946684800>>
     /\ ( /\ call.T \in {"timestamp_t", "timestamptz_t"}
          /\ pgresult_.col.value = Zero8 ) =>
          /\ call.outcome = "return"
          /\ ~call.ub
          /\ call.ret = MICROSEC_UNIX_TO_J2000_EPOCH

----------------------------------------------------------------------------
(* C16  Row counter.                                                          *)

RECURSIVE TuplesIn(_)
\* the number of single-tuple messages among the fetched statuses
TuplesIn(fetched) ==
  IF fetched = << >> THEN 0
  ELSE (IF Head(fetched) = PGRES_SINGLE_TUPLE THEN 1 ELSE 0) + TuplesIn(Tail(fetched))

\* the operations of the Result that can fetch messages
StreamOps == {"first", "next", "inc", "clear"}

\* the row counter the last call counts from: 0 for a first() that went past
\* its assertion, the counter before the call otherwise
CountFrom == IF call.op = "first" /\ call.fetched # << >> THEN 0 ELSE call.pre.num_

(* C16 as claimed: first() resets the row counter to 0 before fetching; the   *)
(* counter never decreases between two first() calls; it increases by exactly *)
(* 1 on each fetched single-tuple message and on no other message; whenever   *)
(* the stream is positioned on a tuple the counter is the 1-based index of    *)
(* that tuple among the tuples of its query.                                  *)

Counted ==
  IF call.op = "clear"
  THEN IF call.pre.status_ = PGRES_SINGLE_TUPLE /\ call.fetched # << >>
          /\ call.fetched[1] = PGRES_SINGLE_TUPLE
       THEN 1 ELSE 0
  ELSE TuplesIn(call.fetched)

----------------------------------------------------------------------------
(* C18  Cancellation only when needed.  clear() called on a tuple fetches one *)
(* message through next() and calls cancel() if and only if that message is   *)
(* again a single tuple, fetching nothing more; when it is the end-of-rows    *)
(* message clear() does not cancel and fetches once more, and if that fetch   *)
(* returns the null sentinel the stream is Idle; clear() called in any other  *)
(* state never calls cancel().                                                *)

----------------------------------------------------------------------------
(* C19  Multi-statement drain.  clear() called in CommandOnly state with n    *)
(* command-completion messages and then the null sentinel pending returns,    *)
(* releases each message before it fetches the next, consumes every message   *)
(* up to and including the sentinel and nothing after it, and leaves the      *)
(* stream Idle.                                                               *)

C19_MultiStatementDrain ==
  ( /\ call.op = "clear"
    /\ WasCommandOnly
    /\ \A i \in 1..Len(PrePending) : PrePending[i].status = PGRES_COMMAND_OK )
  => LET n == call.pre.npending
     IN  /\ call.outcome = "return"
         /\ Idle
         /\ Requestable
         /\ call.fetched = [ i \in 1..(n + 1) |->
                               IF i <= n THEN PGRES_COMMAND_OK ELSE "NULL" ]
         /\ call.released = n + 1
         /\ call.peak = 1
         /\ heap.live = {}
         /\ call.cancelled = 0

C19_Witness ==
  /\ call.op = "clear"
  /\ WasCommandOnly
  /\ call.pre.npending = 2
  /\ call.fetched = <<PGRES_COMMAND_OK, PGRES_COMMAND_OK, "NULL">>
  /\ Idle

----------------------------------------------------------------------------
(* C20  Iterator protocol.  After first(), the loop that takes b = begin()    *)
(* and e = end() once and pre-increments b until b == e runs its body exactly *)
(* N times, with row counters 1..N in order, when the request delivers N      *)
(* tuples and then the end-of-rows message, and zero times when the first     *)
(* message is end-of-rows or command-completion, end() then being begin().    *)

\* the number of tuples the request delivers before any other message
LeadingTuples ==
  CHOOSE n \in 0..Len(hist.script) :
    /\ \A i \in 1..n : hist.script[i].status = PGRES_SINGLE_TUPLE
    /\ n < Len(hist.script) => hist.script[n + 1].status # PGRES_SINGLE_TUPLE

\* the loop has ended: b == e
LoopEnded == hist.loop = "running" /\ ~iterator_ne(ptr_, hist.e)

C20_IteratorVisitsEveryRow ==
  hist.loop # "none" =>
    LET N == LeadingTuples
    IN  /\ hist.script[N + 1].status = PGRES_TUPLES_OK =>
             /\ hist.loop = "running"
             /\ call.outcome = "return"
             /\ hist.body = [ i \in 1..Len(hist.body) |-> i ]
             /\ Len(hist.body) <= N
             /\ LoopEnded <=> Len(hist.body) = N
             /\ LoopEnded => (N = 0 \/ Exhausted)
        /\ hist.script[1].status \in {PGRES_TUPLES_OK, PGRES_COMMAND_OK} =>
             /\ hist.e = begin
             /\ LoopEnded
             /\ hist.body = << >>

\* the loop over two rows has ended after two turns
C20_Witness ==
  /\ LoopEnded
  /\ hist.e = "end_"
  /\ hist.body = <<1, 2>>
  /\ Exhausted
  /\ call.op = "inc"

\* the loop over a command's result has ended without a turn
C20_WitnessNoRow ==
  /\ LoopEnded
  /\ hist.script[1].status = PGRES_COMMAND_OK
  /\ hist.body = << >>

----------------------------------------------------------------------------
(* C21  End iterator is stable.  For a request that delivers N >= 1 tuples    *)
(* and then the end-of-rows message: an iterator that ++ has moved past the   *)
(* last tuple equals the value end() returns at that moment, so the loop that *)
(* calls end() in every test runs its body at most N times; and end() before  *)
(* and after the exhaustion of the stream is the same position.               *)

C21_EndIteratorStable ==
  ( /\ hist.loop \in {"each", "each left"}
    /\ LeadingTuples >= 1
    /\ hist.script[LeadingTuples + 1].status = PGRES_TUPLES_OK )
  => /\ ptr_ = "end_" => ~iterator_ne(ptr_, end(Enter))
     /\ Len(hist.body) <= LeadingTuples
     /\ end(Enter) = hist.e

----------------------------------------------------------------------------
(* C22  Buffer/status consistency.                                            *)

\* the last call is the construction or a call of first(), next() or clear()
\* that returned or threw
Completed ==
  /\ call.op \in {"new", "first", "next", "clear"}
  /\ call.outcome \in {"return", "throw"}

\* no buffer exactly in the empty status, else the status of the buffer
Consistent ==
  /\ pgresult_ = NULL <=> status_ = PGRES_EMPTY_QUERY
  /\ pgresult_ # NULL => status_ = PQresultStatus(pgresult_)

(* C22 as claimed: after construction and after every completed call of       *)
(* first(), next() or clear(), over any message sequence, the buffer is       *)
(* absent if and only if the status is the empty status, and the status is    *)
(* that of the attached buffer when there is one.                             *)

C22_BufferStatusConsistency == Completed => Consistent

\* clear() on the last tuple of a statement that another statement follows
C22_NextStatementLeftAttached ==
  /\ NDEBUG
  /\ call.op = "clear"
  /\ call.outcome = "return"
  /\ WasPositioned
  /\ call.fetched = <<PGRES_TUPLES_OK, PGRES_COMMAND_OK>>
  /\ pgresult_ # NULL
  /\ status_ = PGRES_EMPTY_QUERY

----------------------------------------------------------------------------
(* C23  Every buffer is released exactly once.  Over any calls of first(),    *)
(* next() and clear(), calls that throw included, and then the destruction of *)
(* the Result: no call releases a buffer that is not live, the buffer in hand *)
(* is live as long as the Result exists, every other buffer obtained from the *)
(* connection has been released, and after the destructor no buffer is live   *)
(* and the releases equal the buffers obtained.                               *)

\* the buffers obtained from the connection so far
Obtained == Len(hist.script) - Len(conn_.pending)

C23_ReleasedExactlyOnce ==
  /\ ~call.ub
  /\ (Exists /\ pgresult_ # NULL) => pgresult_.id \in heap.live
  /\ Exists => heap.live \subseteq {pgresult_.id}
  /\ hist.freed + Cardinality(heap.live) = Obtained
  /\ call.op = "destroy" =>
       /\ heap.live = {}
       /\ hist.freed = Obtained

\* a Result destroyed with a buffer in hand, after a call that threw
C23_Witness ==
  /\ call.op = "destroy"
  /\ call.released = 1
  /\ call.pre.status_ \in ErrorStatuses
  /\ hist.freed = 3
  /\ heap.live = {}

====
